---- MODULE Spec2Model ----
(***************************************************************************)
(* Model of src/main.py: three read-only endpoints (/clients, /products,   *)
(* /sales) over a relational store (tables clients, products) and a CSV    *)
(* file of sales.  Each request obtains a session from get_db, runs its    *)
(* endpoint, and get_db's finally clause closes the session.               *)
(*                                                                         *)
(* Python values read from the CSV are written as their text: "1" is the   *)
(* number 1 (int, or the float 1.0 pandas makes of it in a column that     *)
(* also holds an empty cell), "nan" is the float NaN pandas gives for an   *)
(* empty cell, "abc" is a non-numeric string, "None" is Python's None.     *)
(***************************************************************************)
EXTENDS Integers, Sequences, FiniteSets, TLC

\* ---------------------------------------------------------------- bounds
MaxRows == 2
NumReqs == 2

Reqs == 1..NumReqs
\* One worker serving requests one after the other (specification Spec).
Serial == {1}

\* ------------------------------------------------------------- constants
CSV_FILE_PATH == "path/to/your/sales.csv"
PyNone == "None"
NaN == "nan"
NA == "N/A"

\* Session objects SessionLocal() can hand out; one per concurrent request
\* is enough for every request to get an object nobody else holds.
Sessions == 1..NumReqs
NoSession == 0
NoReq == 0

\* ------------------------------------------------------- the data domains
ClientIds == {1}
ProductIds == {1}
ClientNames == {"Acme", NA}
ProductNames == {"Widget", NA}
Prices == {10}

\* Rows of the clients table: id is the primary key, name is nullable.
ClientEntity == [id : ClientIds, name : ClientNames \cup {PyNone}]
ProductEntity == [id : ProductIds, name : ProductNames \cup {PyNone}, price : Prices]

UniqueIds(t) == \A x \in t : \A y \in t : x.id = y.id => x = y
ClientTables == {t \in SUBSET ClientEntity : UniqueIds(t)}
ProductTables == {t \in SUBSET ProductEntity : UniqueIds(t)}

\* Text of the cells of the CSV file: a number (1 is the id of a row the
\* tables can hold, 2 is the id of none), an empty cell, a word.
KeyCells == {"1", "2", "", "abc"}
IdCells == {"1"}
AmountCells == {"5"}
CsvRow == [id : IdCells, client_id : KeyCells, product_id : KeyCells, sale_amount : AmountCells]

SeqsUpTo(S, n) == UNION {[1..k -> S] : k \in 0..n}

\* The file at CSV_FILE_PATH: absent, unreadable/unparsable, or a header
\* id,client_id,product_id,sale_amount followed by data rows.
Files ==
    {[status |-> "missing", rows |-> <<>>], [status |-> "malformed", rows |-> <<>>]}
    \cup {[status |-> "ok", rows |-> rs] : rs \in SeqsUpTo(CsvRow, MaxRows)}

Endpoints == {"/clients", "/products", "/sales"}

VARIABLES
    clients,              \* rows of table clients
    products,             \* rows of table products
    fs,                   \* the file system: path -> file
    pc,                   \* where each request is
    endpoint,             \* the route each request is for
    db,                   \* the session get_db yielded to the request
    open,                 \* the sessions that are open
    owner,                \* which request's get_db created each session
    sales_data_from_csv,  \* read_sales' local
    enriched_sales_data,  \* read_sales' local
    client_db,            \* read_sales' local: {} is None, {c} is the row c
    resp,                 \* what the endpoint returned or raised
    store_errors          \* how many queries of the request have raised

vars == <<clients, products, fs, pc, endpoint, db, open, owner,
          sales_data_from_csv, enriched_sales_data, client_db, resp, store_errors>>

store == <<clients, products, fs>>
locals == <<sales_data_from_csv, enriched_sales_data, client_db>>
sessions == <<db, open, owner>>

\* ------------------------------------------------------- pure functions

\* The numbers the model's cells and defaults denote.
IsNumber(v) == v \in {"0", "1", "2", "5"}
Num(v) == CASE v = "1" -> 1 [] v = "2" -> 2 [] v = "5" -> 5 [] OTHER -> 0

\* pd.read_csv: an empty cell becomes NaN, the other cells keep their value.
read_cell(c) == IF c = "" THEN NaN ELSE c

\* df.to_dict(orient='records'): one dict per data row, in file order.
to_dict(rows) == [i \in 1..Len(rows) |-> [k \in DOMAIN rows[i] |-> read_cell(rows[i][k])]]

\* pd.read_csv raises for a missing or unparsable file.
read_csv_raises(file_path) == fs[file_path].status # "ok"

load_sales_from_csv(file_path) ==
    IF read_csv_raises(file_path) THEN <<>> ELSE to_dict(fs[file_path].rows)

\* dict.get(key, default)
Get(d, k, default) == IF k \in DOMAIN d THEN d[k] ELSE default

\* query(Entity).filter(Entity.id == key): ids are integers; None (IS NULL),
\* NaN and a word equal no id.
filter_by_id(table, key) == {e \in table : IsNumber(key) /\ e.id = Num(key)}

\* .first(): None ({}) or one of the rows ({e}).
first(q) == IF q = {} THEN {{}} ELSE {{e} : e \in q}

\* .all(): the rows as a list, in an order the store chooses.
all(q) == {s \in [1..Cardinality(q) -> q] : \A i, j \in 1..Cardinality(q) : i # j => s[i] # s[j]}

\* client_db.name if client_db else "N/A"
NameOrDefaultBlank(row_db) == IF row_db = {} THEN "" ELSE (CHOOSE e \in row_db : TRUE).name
NameOrDefault(row_db) == IF row_db = {} THEN NA ELSE (CHOOSE e \in row_db : TRUE).name

\* pydantic: an int field takes a number (NaN, None and words are rejected),
\* a str field takes a string (None is rejected).
ValidInt(v) == IsNumber(v)
ValidFloat(v) == IsNumber(v)
ValidStr(v) == v # PyNone

SaleOutputSwapped(id, client_id, product_id, sale_amount, client_name, product_name) ==
    [valid |-> ValidInt(id) /\ ValidInt(client_id) /\ ValidInt(product_id)
               /\ ValidFloat(sale_amount) /\ ValidStr(client_name) /\ ValidStr(product_name),
     value |-> [id |-> Num(id), client_id |-> Num(client_id), product_id |-> Num(product_id),
                sale_amount |-> Num(sale_amount),
                client_name |-> product_name, product_name |-> client_name]]

SaleOutput(id, client_id, product_id, sale_amount, client_name, product_name) ==
    [valid |-> ValidInt(id) /\ ValidInt(client_id) /\ ValidInt(product_id)
               /\ ValidFloat(sale_amount) /\ ValidStr(client_name) /\ ValidStr(product_name),
     value |-> [id |-> Num(id), client_id |-> Num(client_id), product_id |-> Num(product_id),
                sale_amount |-> Num(sale_amount),
                client_name |-> client_name, product_name |-> product_name]]

\* response_model=list[Client] / list[Product]
ValidClient(c) == ValidStr(c.name)
ValidProduct(p) == ValidStr(p.name)

\* list.append
prepend(list, x) == <<x>> \o list
append(list, x) == Append(list, x)

\* SessionLocal(): a session object no request holds.
SessionLocalShared == CHOOSE s \in Sessions : \A t \in Sessions : s <= t
SessionLocal == CHOOSE s \in Sessions \ open : \A t \in Sessions \ open : s <= t

\* ------------------------------------------------------------ the state
NoResp == [status |-> "none", body |-> <<>>]

TypeOK ==
    /\ clients \in ClientTables
    /\ products \in ProductTables
    /\ fs \in [{CSV_FILE_PATH} -> Files]
    /\ pc \in [Reqs -> {"idle", "handler", "qclient", "qproduct", "exit"}]
    /\ endpoint \in [Reqs -> Endpoints \cup {"none"}]
    /\ db \in [Reqs -> Sessions \cup {NoSession}]
    /\ open \subseteq Sessions
    /\ owner \in [Sessions -> Reqs \cup {NoReq}]
    /\ store_errors \in [Reqs -> 0..1]

InitRequests ==
    /\ pc = [r \in Reqs |-> "idle"]
    /\ endpoint = [r \in Reqs |-> "none"]
    /\ db = [r \in Reqs |-> NoSession]
    /\ open = {}
    /\ owner = [s \in Sessions |-> NoReq]
    /\ sales_data_from_csv = [r \in Reqs |-> <<>>]
    /\ enriched_sales_data = [r \in Reqs |-> <<>>]
    /\ client_db = [r \in Reqs |-> {}]
    /\ resp = [r \in Reqs |-> NoResp]
    /\ store_errors = [r \in Reqs |-> 0]

Init ==
    /\ clients \in ClientTables
    /\ products \in ProductTables
    /\ fs \in [{CSV_FILE_PATH} -> Files]
    /\ InitRequests

\* --------------------------------------------------- leaving an endpoint

\* The endpoint returns value: the response is 200 with that body.
Return(r, value) ==
    /\ pc' = [pc EXCEPT ![r] = "exit"]
    /\ resp' = [resp EXCEPT ![r] = [status |-> "200", body |-> value]]

\* An exception leaves the endpoint (no endpoint has a try/except): the
\* request fails with it, and there is no body.
RaiseSwallowed(r, exc) ==
    /\ pc' = [pc EXCEPT ![r] = "exit"]
    /\ resp' = [resp EXCEPT ![r] = [status |-> "200", body |-> <<>>]]

Raise(r, exc) ==
    /\ pc' = [pc EXCEPT ![r] = "exit"]
    /\ resp' = [resp EXCEPT ![r] = [status |-> exc, body |-> <<>>]]

\* A query on the session raises (the store is down, or it rejects the
\* statement): the exception leaves the endpoint.
QueryRaises(r) ==
    /\ store_errors' = [store_errors EXCEPT ![r] = @ + 1]
    /\ Raise(r, "StoreError")
    /\ UNCHANGED <<store, endpoint, sessions, locals>>

\* ------------------------------------------------------------- get_db

\* db = SessionLocal(); yield db
get_db_enter(r, ep) ==
    /\ pc[r] = "idle"
    /\ LET s == SessionLocal IN
        /\ db' = [db EXCEPT ![r] = s]
        /\ open' = open \cup {s}
        /\ owner' = [owner EXCEPT ![s] = r]
    /\ pc' = [pc EXCEPT ![r] = "handler"]
    /\ endpoint' = [endpoint EXCEPT ![r] = ep]
    /\ resp' = [resp EXCEPT ![r] = NoResp]
    /\ store_errors' = [store_errors EXCEPT ![r] = 0]
    /\ UNCHANGED <<store, locals>>

\* finally: db.close().  The request is over: its locals are gone and its
\* body has been sent; the status stays as the record of how it ended.
get_db_exit_on_success(r) ==
    /\ pc[r] = "exit"
    /\ open' = IF resp[r].status = "200" THEN open \ {db[r]} ELSE open
    /\ db' = [db EXCEPT ![r] = NoSession]
    /\ pc' = [pc EXCEPT ![r] = "idle"]
    /\ endpoint' = [endpoint EXCEPT ![r] = "none"]
    /\ resp' = [resp EXCEPT ![r].body = <<>>]
    /\ sales_data_from_csv' = [sales_data_from_csv EXCEPT ![r] = <<>>]
    /\ enriched_sales_data' = [enriched_sales_data EXCEPT ![r] = <<>>]
    /\ client_db' = [client_db EXCEPT ![r] = {}]
    /\ UNCHANGED <<store, owner, store_errors>>

get_db_exit(r) ==
    /\ pc[r] = "exit"
    /\ open' = open \ {db[r]}
    /\ db' = [db EXCEPT ![r] = NoSession]
    /\ pc' = [pc EXCEPT ![r] = "idle"]
    /\ endpoint' = [endpoint EXCEPT ![r] = "none"]
    /\ resp' = [resp EXCEPT ![r].body = <<>>]
    /\ sales_data_from_csv' = [sales_data_from_csv EXCEPT ![r] = <<>>]
    /\ enriched_sales_data' = [enriched_sales_data EXCEPT ![r] = <<>>]
    /\ client_db' = [client_db EXCEPT ![r] = {}]
    /\ UNCHANGED <<store, owner, store_errors>>

\* ------------------------------------------------ /clients and /products

read_clients(r) ==
    /\ pc[r] = "handler"
    /\ endpoint[r] = "/clients"
    /\ \/ QueryRaises(r)
       \/ /\ \E body \in all(clients) :
                IF \A c \in clients : ValidClient(c)
                THEN Return(r, body)
                ELSE Raise(r, "ValidationError")
          /\ UNCHANGED <<store, endpoint, sessions, locals, store_errors>>

read_products(r) ==
    /\ pc[r] = "handler"
    /\ endpoint[r] = "/products"
    /\ \/ QueryRaises(r)
       \/ /\ \E body \in all(products) :
                IF \A p \in products : ValidProduct(p)
                THEN Return(r, body)
                ELSE Raise(r, "ValidationError")
          /\ UNCHANGED <<store, endpoint, sessions, locals, store_errors>>

\* ---------------------------------------------------------------- /sales

\* sales_data_from_csv = load_sales_from_csv(CSV_FILE_PATH), and the early
\* return of [] when it is empty.
read_sales_load_raising(r) ==
    /\ pc[r] = "handler"
    /\ endpoint[r] = "/sales"
    /\ LET data == load_sales_from_csv(CSV_FILE_PATH) IN
        /\ sales_data_from_csv' = [sales_data_from_csv EXCEPT ![r] = data]
        /\ IF read_csv_raises(CSV_FILE_PATH) THEN Raise(r, "FileError")
           ELSE IF data = <<>> THEN Return(r, <<>>)
           ELSE pc' = [pc EXCEPT ![r] = "qclient"] /\ UNCHANGED resp
    /\ UNCHANGED <<store, endpoint, sessions, enriched_sales_data, client_db, store_errors>>

read_sales_load(r) ==
    /\ pc[r] = "handler"
    /\ endpoint[r] = "/sales"
    /\ LET data == load_sales_from_csv(CSV_FILE_PATH) IN
        /\ sales_data_from_csv' = [sales_data_from_csv EXCEPT ![r] = data]
        /\ IF data = <<>> THEN Return(r, <<>>)
           ELSE pc' = [pc EXCEPT ![r] = "qclient"] /\ UNCHANGED resp
    /\ UNCHANGED <<store, endpoint, sessions, enriched_sales_data, client_db, store_errors>>

\* The record the loop is at: the rows before it have been appended.
sale_record_csv(r) == sales_data_from_csv[r][Len(enriched_sales_data[r]) + 1]

\* client_db = db.query(ClientEntity).filter(ClientEntity.id == ...).first()
read_sales_client_memo(r) ==
    /\ pc[r] = "qclient"
    /\ \/ QueryRaises(r)
       \/ /\ LET key == Get(sale_record_csv(r), "client_id", PyNone)
                  earlier == {i \in 1..Len(enriched_sales_data[r]) :
                                /\ IsNumber(key)
                                /\ enriched_sales_data[r][i].client_id = Num(key)
                                /\ enriched_sales_data[r][i].client_name # NA}
              IN  IF earlier # {}
                  THEN client_db' = [client_db EXCEPT ![r] =
                          {[id |-> Num(key),
                            name |-> enriched_sales_data[r][CHOOSE i \in earlier : TRUE].client_name]}]
                  ELSE \E found \in first(filter_by_id(clients, key)) :
                          client_db' = [client_db EXCEPT ![r] = found]
          /\ pc' = [pc EXCEPT ![r] = "qproduct"]
          /\ UNCHANGED <<store, endpoint, sessions, sales_data_from_csv, enriched_sales_data,
                         resp, store_errors>>

read_sales_client_creating(r) ==
    /\ pc[r] = "qclient"
    /\ \/ QueryRaises(r)
       \/ /\ LET key == Get(sale_record_csv(r), "client_id", PyNone)
                  q == filter_by_id(clients, key)
              IN  IF q = {} /\ IsNumber(key)
                  THEN /\ clients' = clients \cup {[id |-> Num(key), name |-> NA]}
                       /\ client_db' = [client_db EXCEPT ![r] = {[id |-> Num(key), name |-> NA]}]
                  ELSE /\ \E found \in first(q) : client_db' = [client_db EXCEPT ![r] = found]
                       /\ UNCHANGED clients
          /\ pc' = [pc EXCEPT ![r] = "qproduct"]
          /\ UNCHANGED <<products, fs, endpoint, sessions, sales_data_from_csv,
                         enriched_sales_data, resp, store_errors>>

read_sales_client(r) ==
    /\ pc[r] = "qclient"
    /\ \/ QueryRaises(r)
       \/ /\ \E found \in first(filter_by_id(clients, Get(sale_record_csv(r), "client_id", PyNone))) :
                client_db' = [client_db EXCEPT ![r] = found]
          /\ pc' = [pc EXCEPT ![r] = "qproduct"]
          /\ UNCHANGED <<store, endpoint, sessions, sales_data_from_csv, enriched_sales_data,
                         resp, store_errors>>

\* product_db = db.query(ProductEntity)...first(); SaleOutput(...); append;
\* and the return after the last record.
read_sales_product(r) ==
    /\ pc[r] = "qproduct"
    /\ \/ QueryRaises(r)
       \/ /\ \E product_db \in first(filter_by_id(products, Get(sale_record_csv(r), "product_id", PyNone))) :
                LET rec == sale_record_csv(r)
                    sale_output_enriched ==
                        SaleOutput(Get(rec, "id", "0"),
                                   Get(rec, "client_id", PyNone),
                                   Get(rec, "product_id", PyNone),
                                   Get(rec, "sale_amount", "0"),
                                   NameOrDefault(client_db[r]),
                                   NameOrDefault(product_db))
                    appended == append(enriched_sales_data[r], sale_output_enriched.value)
                IN  IF ~sale_output_enriched.valid
                    THEN Raise(r, "ValidationError") /\ UNCHANGED enriched_sales_data
                    ELSE /\ enriched_sales_data' = [enriched_sales_data EXCEPT ![r] = appended]
                         /\ IF Len(appended) >= Len(sales_data_from_csv[r])
                            THEN Return(r, appended)
                            ELSE pc' = [pc EXCEPT ![r] = "qclient"] /\ UNCHANGED resp
          /\ client_db' = [client_db EXCEPT ![r] = {}]
          /\ UNCHANGED <<store, endpoint, sessions, sales_data_from_csv, store_errors>>

\* --------------------------------------------------------- environment

\* Rows of the two tables are created, changed and deleted by other
\* programs, at any time.
ExternalClientsWrite ==
    /\ \E t \in ClientTables \ {clients} : clients' = t
    /\ UNCHANGED <<products, fs, pc, endpoint, sessions, locals, resp, store_errors>>

ExternalProductsWrite ==
    /\ \E t \in ProductTables \ {products} : products' = t
    /\ UNCHANGED <<clients, fs, pc, endpoint, sessions, locals, resp, store_errors>>

\* The file is created, extended, truncated, removed or corrupted by other
\* programs, one edit at a time (every file is a few edits away from every
\* other).  A request reads the file once, when it starts; a write after
\* that read cannot be told, by that request, from a write after its end,
\* and is taken then.
FileAfterEdit(f) ==
    {[status |-> "missing", rows |-> <<>>], [status |-> "malformed", rows |-> <<>>],
     [status |-> "ok", rows |-> <<>>]}
    \cup {[status |-> "ok", rows |-> Append(f.rows, row)] :
             row \in {x \in CsvRow : f.status = "ok" /\ Len(f.rows) < MaxRows}}
    \cup {[status |-> "ok", rows |-> SubSeq(f.rows, 1, Len(f.rows) - 1)] :
             x \in {y \in {1} : f.status = "ok" /\ Len(f.rows) > 0}}

ExternalFileWrite ==
    /\ \A r \in Reqs : pc[r] \in {"idle", "handler"}
    /\ \E f \in FileAfterEdit(fs[CSV_FILE_PATH]) \ {fs[CSV_FILE_PATH]} :
            fs' = [fs EXCEPT ![CSV_FILE_PATH] = f]
    /\ UNCHANGED <<clients, products, pc, endpoint, sessions, locals, resp, store_errors>>

\* ------------------------------------------------------ specifications

Step(r) ==
    \/ \E ep \in Endpoints : get_db_enter(r, ep)
    \/ read_clients(r)
    \/ read_products(r)
    \/ read_sales_load(r)
    \/ read_sales_client(r)
    \/ read_sales_product(r)
    \/ get_db_exit(r)

Next ==
    \/ \E r \in Serial : Step(r)
    \/ ExternalClientsWrite
    \/ ExternalProductsWrite
    \/ ExternalFileWrite

Spec == Init /\ [][Next]_vars

\* NumReqs requests served concurrently, in any interleaving of their steps,
\* over a store and a file nobody writes meanwhile.
ConcFiles ==
    {[status |-> "missing", rows |-> <<>>],
     [status |-> "ok", rows |-> <<[id |-> "1", client_id |-> "1", product_id |-> "2", sale_amount |-> "5"]>>],
     [status |-> "ok", rows |-> <<[id |-> "1", client_id |-> "", product_id |-> "1", sale_amount |-> "5"]>>]}

InitConc ==
    /\ clients \in {{}, {[id |-> 1, name |-> "Acme"]}, {[id |-> 1, name |-> PyNone]}}
    /\ products = {[id |-> 1, name |-> "Widget", price |-> 10]}
    /\ fs \in [{CSV_FILE_PATH} -> ConcFiles]
    /\ InitRequests

NextConc == \E r \in Reqs : Step(r)

SpecConc == InitConc /\ [][NextConc]_vars

\* ---------------------------------------------------------- properties

InFlight(r) == pc[r] # "idle"

\* The request has returned from read_sales with a body.
SalesReturned(r) == pc[r] = "exit" /\ endpoint[r] = "/sales" /\ resp[r].status = "200"

\* The step is the client lookup of request r.
ClientLookedUp(r) == pc[r] = "qclient" /\ pc'[r] = "qproduct"

\* The step appends an enriched sale to request r's result.
EntryAppended(r) ==
    pc[r] = "qproduct" /\ Len(enriched_sales_data'[r]) = Len(enriched_sales_data[r]) + 1

NewEntry(r) == enriched_sales_data'[r][Len(enriched_sales_data'[r])]

\* The value v read from the file is the number n.
Denotes(v, n) == \/ v = "0" /\ n = 0
                 \/ v = "1" /\ n = 1
                 \/ v = "2" /\ n = 2
                 \/ v = "5" /\ n = 5

MissingOrNonNumeric(v) == v \in {NaN, PyNone, "abc"}

\* C1 as the specification states it: in every enriched sale, client_name is
\* "N/A" exactly when the lookup found no Client with the sale's client_id,
\* and product_name is "N/A" exactly when no Product with its product_id
\* exists at the lookup.
C1_SentinelIffAbsent ==
    [][\A r \in Reqs :
        /\ ClientLookedUp(r) =>
             (client_db'[r] = {} <=>
                ~\E c \in clients : Denotes(sale_record_csv(r).client_id, c.id))
        /\ EntryAppended(r) =>
             /\ \A c \in client_db[r] : c.id = NewEntry(r).client_id
             /\ NewEntry(r).client_name = NA <=> client_db[r] = {}
             /\ NewEntry(r).product_name = NA <=>
                  ~\E p \in products : p.id = NewEntry(r).product_id]_vars

\* C1 amended: client_name is "N/A" exactly when the lookup found no Client
\* with the sale's client_id or the Client found is itself named "N/A";
\* the same for product_name and Product.
C1_SentinelIffAbsentOrNamedNA ==
    [][\A r \in Reqs :
        /\ ClientLookedUp(r) =>
             (client_db'[r] = {} <=>
                ~\E c \in clients : Denotes(sale_record_csv(r).client_id, c.id))
        /\ EntryAppended(r) =>
             /\ \A c \in client_db[r] : c.id = NewEntry(r).client_id
             /\ NewEntry(r).client_name = NA <=>
                  (client_db[r] = {} \/ \E c \in client_db[r] : c.name = NA)
             /\ NewEntry(r).product_name = NA <=>
                  \/ ~\E p \in products : p.id = NewEntry(r).product_id
                  \/ \E p \in products : p.id = NewEntry(r).product_id /\ p.name = NA]_vars

\* A returned sale is named "N/A" although its Client exists, named "N/A".
C1_Witness ==
    \E r \in Reqs :
        /\ SalesReturned(r)
        /\ \E i \in 1..Len(resp[r].body) :
             /\ resp[r].body[i].client_name = NA
             /\ [id |-> resp[r].body[i].client_id, name |-> NA] \in clients

\* C2: the body read_sales returns has one enriched sale per record that
\* load_sales_from_csv returned, which are the rows of the file in file
\* order; the i-th carries the i-th row's id, client_id, product_id and
\* sale_amount.
C2_OnePerRowInOrder ==
    \A r \in Reqs :
        SalesReturned(r) =>
            /\ Len(resp[r].body) = Len(sales_data_from_csv[r])
            /\ Len(resp[r].body) = Len(fs[CSV_FILE_PATH].rows)
            /\ \A i \in 1..Len(resp[r].body) :
                 /\ Denotes(fs[CSV_FILE_PATH].rows[i].id, resp[r].body[i].id)
                 /\ Denotes(fs[CSV_FILE_PATH].rows[i].client_id, resp[r].body[i].client_id)
                 /\ Denotes(fs[CSV_FILE_PATH].rows[i].product_id, resp[r].body[i].product_id)
                 /\ Denotes(fs[CSV_FILE_PATH].rows[i].sale_amount, resp[r].body[i].sale_amount)
                 /\ Denotes(sales_data_from_csv[r][i].client_id, resp[r].body[i].client_id)
                 /\ Denotes(sales_data_from_csv[r][i].product_id, resp[r].body[i].product_id)

\* Two rows that differ have been returned.
C2_Witness ==
    \E r \in Reqs :
        /\ SalesReturned(r)
        /\ Len(resp[r].body) = 2
        /\ resp[r].body[1].client_id # resp[r].body[2].client_id

\* C3: when the lookup finds the Client with the row's client_id, the
\* enriched sale's client_name is that Client's name; when a Product with
\* the row's product_id exists at the lookup, product_name is its name.
C3_NameOfMatch ==
    [][\A r \in Reqs :
        /\ ClientLookedUp(r) =>
             \A c \in clients :
                Denotes(sale_record_csv(r).client_id, c.id) => client_db'[r] = {c}
        /\ EntryAppended(r) =>
             /\ \A c \in client_db[r] : NewEntry(r).client_name = c.name
             /\ \A p \in products :
                  Denotes(sale_record_csv(r).product_id, p.id) =>
                      NewEntry(r).product_name = p.name]_vars

\* A sale has been returned with the names of its Client and its Product.
C3_Witness ==
    \E r \in Reqs :
        /\ SalesReturned(r)
        /\ \E i \in 1..Len(resp[r].body) :
             /\ resp[r].body[i].client_name = "Acme"
             /\ resp[r].body[i].product_name = "Widget"
             /\ resp[r].body[i].client_id = 1
             /\ resp[r].body[i].product_id = 1

\* C4: when a record's client_id or product_id is missing or non-numeric
\* and no query fails, read_sales still returns, with one enriched sale
\* per record.
C4_BadKeyRowStillEmitted ==
    \A r \in Reqs :
        ( /\ pc[r] = "exit"
          /\ endpoint[r] = "/sales"
          /\ store_errors[r] = 0
          /\ \E i \in 1..Len(sales_data_from_csv[r]) :
                \/ MissingOrNonNumeric(sales_data_from_csv[r][i].client_id)
                \/ MissingOrNonNumeric(sales_data_from_csv[r][i].product_id) )
        => /\ resp[r].status = "200"
           /\ Len(resp[r].body) = Len(sales_data_from_csv[r])

\* C5: when the file is missing or cannot be read or parsed, read_sales
\* has loaded no record and returns the empty list as a success, whatever
\* the tables hold, and without a query.
C5_LoadFailureIsEmptySuccess ==
    \A r \in Reqs :
        (pc[r] = "exit" /\ endpoint[r] = "/sales" /\ fs[CSV_FILE_PATH].status # "ok")
        => /\ sales_data_from_csv[r] = <<>>
           /\ resp[r] = [status |-> "200", body |-> <<>>]
           /\ store_errors[r] = 0

\* read_sales has returned over a corrupt file and tables that hold rows.
C5_Witness ==
    \E r \in Reqs :
        /\ pc[r] = "exit"
        /\ endpoint[r] = "/sales"
        /\ fs[CSV_FILE_PATH].status = "malformed"
        /\ clients # {}
        /\ products # {}

\* C6: once a request is over, however it ended, its get_db holds no
\* session and no session that get_db created for it is open.
C6_SessionClosedAfterRequest ==
    \A r \in Reqs :
        pc[r] = "idle" => /\ db[r] = NoSession
                          /\ \A s \in Sessions : owner[s] = r => s \notin open

\* One request has ended in a store failure and one in a validation
\* error, and the sessions they used are closed.
C6_Witness ==
    \E r1 \in Reqs : \E r2 \in Reqs :
        /\ pc[r1] = "idle" /\ resp[r1].status = "StoreError"
        /\ pc[r2] = "idle" /\ resp[r2].status = "ValidationError"
        /\ \E s1 \in Sessions : owner[s1] = r1 /\ s1 \notin open
        /\ \E s2 \in Sessions : owner[s2] = r2 /\ s2 \notin open

\* C7: no step of a request changes the rows of clients, the rows of
\* products or the file.
C7_RequestsWriteNothing ==
    [][(\E r \in Reqs : pc'[r] # pc[r]) => UNCHANGED <<clients, products, fs>>]_vars

\* A /sales request has returned enriched sales over tables that hold rows.
C7_Witness ==
    \E r \in Reqs :
        /\ SalesReturned(r)
        /\ Len(resp[r].body) > 0
        /\ clients # {}
        /\ products # {}

\* C8: when a query of a request raises, that is the request's only failed
\* query (no retry), the endpoint is left at once, and the request ends as
\* a store failure with no body (no partial, empty or "N/A" result).
C8_StoreFailurePropagatesOnce ==
    \A r \in Reqs :
        store_errors[r] > 0 =>
            /\ store_errors[r] = 1
            /\ pc[r] \in {"exit", "idle"}
            /\ resp[r] = [status |-> "StoreError", body |-> <<>>]

\* A query of read_sales has raised after a sale had been enriched.
C8_Witness ==
    \E r \in Reqs :
        /\ pc[r] = "exit"
        /\ endpoint[r] = "/sales"
        /\ store_errors[r] = 1
        /\ Len(enriched_sales_data[r]) >= 1

\* C9: every request in flight has a session that is open, that get_db
\* created for it, and that no other request in flight has.
C9_OwnSessionPerRequest ==
    \A r \in Reqs :
        InFlight(r) =>
            /\ db[r] \in open
            /\ owner[db[r]] = r
            /\ \A r2 \in Reqs \ {r} : InFlight(r2) => db[r2] # db[r]

\* A request is in its endpoint while another, that started after it, has
\* ended and closed its session.
C9_Witness ==
    \E r1 \in Reqs : \E r2 \in Reqs \ {r1} :
        /\ pc[r1] \in {"qclient", "qproduct"}
        /\ db[r1] = 1
        /\ pc[r2] = "idle"
        /\ owner[2] = r2
        /\ resp[r2].status # "none"

\* C10: each read of a /sales call is of the contents at that moment: the
\* records it loads are the rows the file holds then, the Client it finds
\* is the row clients holds then, the product_name it gives is the name
\* products holds then.
C10_ReadsAreCurrent ==
    [][\A r \in Reqs :
        /\ (pc[r] = "handler" /\ endpoint[r] = "/sales" /\ pc'[r] # "handler") =>
             LET f == fs[CSV_FILE_PATH] IN
             /\ f.status # "ok" => sales_data_from_csv'[r] = <<>>
             /\ f.status = "ok" =>
                  /\ Len(sales_data_from_csv'[r]) = Len(f.rows)
                  /\ \A i \in 1..Len(f.rows) : \A k \in DOMAIN f.rows[i] :
                       sales_data_from_csv'[r][i][k] =
                           (IF f.rows[i][k] = "" THEN NaN ELSE f.rows[i][k])
        /\ ClientLookedUp(r) =>
             client_db'[r] = {c \in clients : Denotes(sale_record_csv(r).client_id, c.id)}
        /\ EntryAppended(r) =>
             LET match == {p \in products : Denotes(sale_record_csv(r).product_id, p.id)} IN
             /\ match = {} => NewEntry(r).product_name = NA
             /\ \A p \in match : NewEntry(r).product_name = p.name]_vars

\* One call has returned two sales of the same Client under two names: the
\* Client's row changed between the two lookups.
C10_Witness ==
    \E r \in Reqs :
        /\ SalesReturned(r)
        /\ Len(resp[r].body) = 2
        /\ resp[r].body[1].client_id = resp[r].body[2].client_id
        /\ resp[r].body[1].client_name = "Acme"
        /\ resp[r].body[2].client_name = NA

====
